---- MODULE Spec2Model ----
(***************************************************************************)
(* Adaptive bounding-box search of pipeline/foodware/places/yelp.py:       *)
(* YelpClient.run_nearby_search tiles the boundary's bounding box, and     *)
(* YelpClient.find_places_in_bounding_box queries, paginates and           *)
(* recursively subdivides each cell.  The recursion is modelled with an    *)
(* explicit call stack; one provider request is one step.                  *)
(*                                                                         *)
(* Lengths: cell coordinates are integers in grid units, MaxSideUnits of   *)
(* which make up max_side_degrees, i.e. sqrt(2) * MAX_SEARCH_RADIUS        *)
(* meters.  Radii are in meters, as in the request parameters.             *)
(***************************************************************************)
EXTENDS Integers, Sequences, FiniteSets, TLC

\* ---------------------------------------------------------------- constants
MAX_NUM_PAGE_RESULTS == 50
MAX_NUM_QUERY_RESULTS == 1000
MAX_SEARCH_RADIUS_IN_METERS == 40000

\* max_side_degrees expressed in grid units (a power of two, so that the
\* 2x2 splits of the modelled depths stay on the integer grid)
MaxSideUnits == 16

\* trip_hotels.py: MAX_NUM_RESULTS_PER_REQUEST, MAX_SEARCH_RADIUS_IN_METERS
TRIP_MAX_NUM_RESULTS_PER_REQUEST == 10

TRIP_MAX_SEARCH_RADIUS_IN_METERS == 2000

\* trip_hotels.py: the hotels on one page of a city's hotel list
HotelsPerPage == 30

\* ------------------------------------------------------------------- bounds
\* deepest subdivision level at which the provider may still report a total
\* above the cap (bounds the otherwise unbounded recursion)
MaxDepth == 2
\* number of provider requests followed in one run
MaxRequests == 6
\* number of provider responses in one run that are not a well-formed page
MaxFailures == 1
\* number of times in one run the provider reports another total for a
\* later page of a cell than for the page before
MaxTotalChanges == 1
\* number of records the provider puts on one page
MaxPageRecords == 2

\* largest x_into and y_into of a split checked on its own
MaxSplit == 3
\* largest side, in grid units, of the sub-boxes of such a split
MaxSubSide == 2
\* largest side of a box tiled into squares, and largest square size
MaxBoxSide == 5
MaxSquare == 3

\* the routes traced on their own: the longest arc list handed to
\* trace_route, and the most arcs of a solution handed to print_save_route
MaxArcs == 3

MaxTourArcs == 4

\* the migration: the most boundary files in the test directory
MaxFiles == 2

\* the Tripadvisor pages: the most entries of a location search, the most
\* hotels handed to get_room_number, the most further hotel-list pages
MaxData == 2

MaxHotels == 2

MaxPages == 3

NoTotal == 0 - 1

NoKey == "missing"

\* the values of the provider's API key in the environment
ApiKeys == {"key", NoKey}

\* totals the provider may report: none, a few, two pages, the cap, above it
Totals ==
  {0, 5, MAX_NUM_PAGE_RESULTS + 1, MAX_NUM_QUERY_RESULTS,
   MAX_NUM_QUERY_RESULTS + 1}

\* HTTP statuses of a failing response: transport, authentication, throttling
ErrorStatuses == {500, 401, 429}

FatalStatuses == {401}

TransportStatuses == {500}

VARIABLES
  api_key,  \* os.environ["YELP_API_KEY"], or NoKey when it is not set
  geo,      \* the boundary: a set of rectangles (Polygon / MultiPolygon)
  cells,    \* run_nearby_search: the grid of initial cells
  cell_idx, \* run_nearby_search: position of the for loop over cells
  stack,    \* call frames of find_places_in_bounding_box, outermost first
  pois,     \* run_nearby_search: pois
  errors,   \* run_nearby_search: errors
  result,   \* <<>> or <<PlacesSearchResult>>
  pc,       \* "loop", "search", "done" or "crashed"
  delayed,  \* TRUE iff time.sleep ran since the last request
  log,      \* history of the requests sent, with the response to each
  cell_results, \* history of the (pois, errors) returned for the initial cells
  fn_in,    \* the arguments of a BoundingBox split checked on its own
  fn_out    \* <<>> or <<the cells the split returned>>

\* the state of a search run
search_vars ==
  <<api_key, geo, cells, cell_idx, stack, pois, errors, result, pc, delayed,
    log, cell_results>>

\* the state of a split checked on its own
fn_vars == <<fn_in, fn_out>>

vars == <<search_vars, fn_vars>>

\* ----------------------------------------------------------------- helpers
Min(a, b) == IF a < b THEN a ELSE b

Max(a, b) == IF a > b THEN a ELSE b

CeilDiv(a, b) == (a + b - 1) \div b

RECURSIVE Concat(_)
Concat(ss) == IF ss = <<>> THEN <<>> ELSE Head(ss) \o Concat(Tail(ss))

Range(s) == {s[i] : i \in DOMAIN s}

\* ---------------------------------------------------------------- geometry
Box(a, b, c, d) == [min_x |-> a, max_x |-> b, min_y |-> c, max_y |-> d]

Width(box) == box.max_x - box.min_x

Height(box) == box.max_y - box.min_y

\* BoundingBox.from_polygon: the smallest box around the boundary
from_polygon(g) ==
  Box(CHOOSE v \in {p.min_x : p \in g} : \A p \in g : v <= p.min_x,
      CHOOSE v \in {p.max_x : p \in g} : \A p \in g : v >= p.max_x,
      CHOOSE v \in {p.min_y : p \in g} : \A p \in g : v <= p.min_y,
      CHOOSE v \in {p.max_y : p \in g} : \A p \in g : v >= p.max_y)

\* a split that cuts every sub-box one unit short on the x axis
split_along_axes_Short(box, x_into, y_into) ==
  LET w == Width(box)
      h == Height(box)
      sub(i, j) ==
        Box(box.min_x + (i * w) \div x_into,
            box.min_x + ((i + 1) * w) \div x_into - 1,
            box.min_y + (j * h) \div y_into,
            box.min_y + ((j + 1) * h) \div y_into)
  IN  [n \in 1..(x_into * y_into) |->
         sub((n - 1) % x_into, (n - 1) \div x_into)]

\* BoundingBox.split_along_axes: x_into * y_into sub-boxes, row by row
split_along_axes(box, x_into, y_into) ==
  LET w == Width(box)
      h == Height(box)
      sub(i, j) ==
        Box(box.min_x + (i * w) \div x_into,
            box.min_x + ((i + 1) * w) \div x_into,
            box.min_y + (j * h) \div y_into,
            box.min_y + ((j + 1) * h) \div y_into)
  IN  [n \in 1..(x_into * y_into) |->
         sub((n - 1) % x_into, (n - 1) \div x_into)]

\* a tiling that does not cut the last row and column at the box's edge
split_into_squares_Uncut(box, size) ==
  LET nx == CeilDiv(Width(box), size)
      ny == CeilDiv(Height(box), size)
      sq(i, j) ==
        Box(box.min_x + i * size, box.min_x + (i + 1) * size,
            box.min_y + j * size, box.min_y + (j + 1) * size)
  IN  [n \in 1..(nx * ny) |-> sq((n - 1) % nx, (n - 1) \div nx)]

\* BoundingBox.split_into_squares: tiles of the given side from the lower
\* left corner; the last row and column are cut at the box's edge
split_into_squares(box, size) ==
  LET nx == CeilDiv(Width(box), size)
      ny == CeilDiv(Height(box), size)
      sq(i, j) ==
        Box(box.min_x + i * size,
            Min(box.min_x + (i + 1) * size, box.max_x),
            box.min_y + j * size,
            Min(box.min_y + (j + 1) * size, box.max_y))
  IN  [n \in 1..(nx * ny) |-> sq((n - 1) % nx, (n - 1) \div nx)]

\* BoundingBox.intersects_with: the box shares area with the boundary
intersects_with(box, g) ==
  \E p \in g :
    /\ Max(box.min_x, p.min_x) < Min(box.max_x, p.max_x)
    /\ Max(box.min_y, p.min_y) < Min(box.max_y, p.max_y)

\* box.center, doubled to stay on the integer grid
Center2(box) == [lon |-> box.min_x + box.max_x, lat |-> box.min_y + box.max_y]

\* A circle of `radius` meters around the center encloses the box:
\* radius >= half the diagonal, where MaxSideUnits units are
\* sqrt(2) * MAX_SEARCH_RADIUS_IN_METERS meters, i.e.
\* radius^2 * 2 * MaxSideUnits^2 >= (w^2 + h^2) * MAX_SEARCH_RADIUS^2
Circumscribes(radius, box) ==
  radius * radius >=
    (Width(box) * Width(box) + Height(box) * Height(box)) *
      ((MAX_SEARCH_RADIUS_IN_METERS * MAX_SEARCH_RADIUS_IN_METERS)
         \div (2 * MaxSideUnits * MaxSideUnits))

\* ------------------------------------------------------------- the provider
\* search_radius is a float in the code: kept as an exact fraction
Radius(num, den) == [num |-> num, den |-> den]

\* math.ceil(search_radius)
CeilRadius(r) == CeilDiv(r.num, r.den)

\* search_radius / 4 of the recursive call
ChildRadius(r) == Radius(r.num, r.den * 4)

\* the request parameters of one page
Params(box, search_radius, page_idx) ==
  [radius |-> CeilRadius(search_radius),
   longitude2 |-> Center2(box).lon,
   latitude2 |-> Center2(box).lat,
   limit |-> MAX_NUM_PAGE_RESULTS,
   offset |-> page_idx * MAX_NUM_PAGE_RESULTS]

\* the "businesses" of a page: place ids run on from the offset; req and k
\* tell the copies of a place apart by the request that returned them
Businesses(total, offset, req) ==
  LET n == Min(MaxPageRecords, Max(0, total - offset))
  IN  [k \in 1..n |-> [id |-> offset + k, req |-> req, k |-> k]]

\* What the provider may answer to request number req.
\*   raised: requests.get raised (timeout, connection error)
\*   json:   the body parses as JSON
\*   ok:     r.ok, the status is below 400
\*   total:  data["total"], NoTotal when the body has no such key
Response(raised, status, json, total, businesses) ==
  [raised |-> raised, status |-> status, ok |-> status < 400, json |-> json,
   total |-> total, businesses |-> businesses]

WellFormed(resp) ==
  ~resp.raised /\ resp.ok /\ resp.json /\ resp.total /= NoTotal

NumFailures == Cardinality({i \in DOMAIN log : ~WellFormed(log[i].resp)})

\* the pages of a cell are consecutive requests: a later page follows the
\* page before it in the log
TotalChanged(i) ==
  /\ log[i].params.offset > 0
  /\ log[i].resp.total /= NoTotal
  /\ log[i].resp.total /= log[i - 1].resp.total

NumTotalChanges == Cardinality({i \in DOMAIN log : TotalChanged(i)})

PageTotals(depth, offset) ==
  {u \in Totals :
     /\ u > MAX_NUM_QUERY_RESULTS => depth < MaxDepth
     /\ (offset > 0 /\ NumTotalChanges >= MaxTotalChanges)
          => u = log[Len(log)].resp.total}

Responses(depth, offset, req) ==
  {Response(FALSE, 200, TRUE, t, Businesses(t, offset, req)) :
     t \in PageTotals(depth, offset)}
  \cup
  (IF NumFailures < MaxFailures
   THEN {Response(TRUE, 0, FALSE, NoTotal, <<>>),
         Response(FALSE, 200, FALSE, NoTotal, <<>>),
         Response(FALSE, 200, TRUE, NoTotal, <<>>)}
        \cup {Response(FALSE, s, j, NoTotal, <<>>) :
                s \in ErrorStatuses, j \in BOOLEAN}
   ELSE {})

\* ------------------------------------------------------------------ frames
\* A call of find_places_in_bounding_box at its entry.  depth, first_req
\* (the number of the call's first request) and sub_results (what the
\* sub-cells returned) are history; the rest are the call's locals.
Frame(box, search_radius, depth, first_req) ==
  [box |-> box, search_radius |-> search_radius, depth |-> depth,
   first_req |-> first_req,
   page_idx |-> 0, pois |-> <<>>, errors |-> <<>>,
   sub_cells |-> <<>>, sub_idx |-> 0, sub_results |-> <<>>,
   at |-> "request"]

Top == stack[Len(stack)]

SetTop(f) == [stack EXCEPT ![Len(stack)] = f]

\* num_pages = (total // limit) + (1 if total % limit > 0 else 0)
NumPages(total) ==
  (total \div MAX_NUM_PAGE_RESULTS) +
    (IF total % MAX_NUM_PAGE_RESULTS > 0 THEN 1 ELSE 0)

\* if data["total"] > YelpClient.MAX_NUM_QUERY_RESULTS
ExceedsCap(total) == total > MAX_NUM_QUERY_RESULTS

\* lists.extend
Extend(list, more) == list \o more

\* clean_places: the first place of every id, in retrieval order
clean_places(raw) ==
  LET keep == {i \in DOMAIN raw : \A j \in 1..(i - 1) : raw[j].id /= raw[i].id}
      RECURSIVE pick(_)
      pick(i) ==
        IF i > Len(raw) THEN <<>>
        ELSE (IF i \in keep THEN <<raw[i]>> ELSE <<>>) \o pick(i + 1)
  IN  pick(1)

\* ------------------------------------------------------------------- inputs
Boundaries ==
  { {Box(0, 16, 0, 16)},
    {Box(0, 8, 0, 8)},
    {Box(0, 8, 0, 8), Box(24, 32, 8, 16)},
    {Box(0, 8, 0, 8), Box(40, 48, 0, 8)} }

\* run_nearby_search up to the for loop
\* The search engine at rest, for the specifications that check a split on
\* its own.
NoSearch ==
  /\ api_key = NoKey
  /\ geo = {}
  /\ cells = <<>>
  /\ cell_idx = 1
  /\ stack = <<>>
  /\ pois = <<>>
  /\ errors = <<>>
  /\ result = <<>>
  /\ pc = "idle"
  /\ delayed = FALSE
  /\ log = <<>>
  /\ cell_results = <<>>

\* no split is checked on its own during a search run
NoSplit == fn_in = <<>> /\ fn_out = <<>>

\* YelpClient.__init__ raises RuntimeError when YELP_API_KEY is not set: the
\* client is never built and run_nearby_search is never called
Init ==
  /\ NoSplit
  /\ api_key \in ApiKeys
  /\ geo \in Boundaries
  /\ cells = split_into_squares(from_polygon(geo), MaxSideUnits)
  /\ cell_idx = 1
  /\ stack = <<>>
  /\ pois = <<>>
  /\ errors = <<>>
  /\ result = <<>>
  /\ pc = IF api_key = NoKey THEN "crashed" ELSE "loop"
  /\ delayed = FALSE
  /\ log = <<>>
  /\ cell_results = <<>>

\* ------------------------------------------------------------------ actions
\* for cell in cells: if cell.intersects_with(geo): find_places_in_bounding_box
SearchCell ==
  /\ pc = "loop"
  /\ cell_idx <= Len(cells)
  /\ intersects_with(cells[cell_idx], geo)
  /\ stack' = <<Frame(cells[cell_idx],
                      Radius(MAX_SEARCH_RADIUS_IN_METERS, 1), 0,
                      Len(log) + 1)>>
  /\ pc' = "search"
  /\ UNCHANGED <<fn_vars, api_key, geo, cells, cell_idx, pois, errors,
               result, delayed, log, cell_results>>

\* for cell in cells: the cell contains no part of the geography
SkipCell ==
  /\ pc = "loop"
  /\ cell_idx <= Len(cells)
  /\ ~intersects_with(cells[cell_idx], geo)
  /\ cell_idx' = cell_idx + 1
  /\ UNCHANGED <<fn_vars, api_key, geo, cells, stack, pois, errors, result,
               pc, delayed, log, cell_results>>

\* One pass of the while loop of find_places_in_bounding_box: the request,
\* and what the code does with the response.  r.json() runs before the r.ok
\* test, so a body that is not JSON raises whatever the status; the error
\* entry's "error" is the parsed body, identified here by its status.
Outcome(f, params, resp) ==
  IF resp.raised \/ ~resp.json THEN
    [decision |-> "raise", frame |-> f, sleep |-> FALSE]
  ELSE IF ~resp.ok THEN
    [decision |-> "error",
     frame |-> [f EXCEPT !.errors = Append(@, [params |-> params,
                                               error |-> resp.status]),
                         !.at = "return"],
     sleep |-> FALSE]
  ELSE IF resp.total = NoTotal THEN
    [decision |-> "raise", frame |-> f, sleep |-> FALSE]
  ELSE IF ExceedsCap(resp.total) THEN
    [decision |-> "subdivide",
     frame |-> [f EXCEPT !.sub_cells = split_along_axes(f.box, 2, 2),
                         !.sub_idx = 1,
                         !.at = "subdivide"],
     sleep |-> FALSE]
  ELSE IF f.page_idx = NumPages(resp.total) - 1 THEN
    [decision |-> "last_page",
     frame |-> [f EXCEPT !.pois = Extend(@, resp.businesses),
                         !.at = "return"],
     sleep |-> FALSE]
  ELSE
    [decision |-> "next_page",
     frame |-> [f EXCEPT !.pois = Extend(@, resp.businesses),
                         !.page_idx = @ + 1],
     sleep |-> TRUE]

\* the request of the call in progress and the handling of its response
Exchange(params, resp) ==
  LET f == Top
      out == Outcome(f, params, resp)
  IN  /\ log' = Append(log, [box |-> f.box, depth |-> f.depth,
                             level |-> Len(stack),
                             authorization |-> api_key,
                             params |-> params, resp |-> resp,
                             decision |-> out.decision,
                             delayed |-> delayed])
      /\ stack' = SetTop(out.frame)
      /\ pc' = IF out.decision = "raise" THEN "crashed" ELSE pc
      /\ delayed' = out.sleep
      /\ UNCHANGED <<fn_vars, api_key, geo, cells, cell_idx, pois, errors,
                     result, cell_results>>

Request ==
  /\ pc = "search"
  /\ Top.at = "request"
  /\ Len(log) < MaxRequests
  /\ LET params == Params(Top.box, Top.search_radius, Top.page_idx)
     IN  \E resp \in Responses(Top.depth, params.offset, Len(log) + 1) :
           Exchange(params, resp)

\* a recursive call that is handed the caller's lists to append to
CallSub_Shared ==
  /\ pc = "search"
  /\ Top.at = "subdivide"
  /\ Top.sub_idx <= Len(Top.sub_cells)
  /\ stack' = Append(stack, [Frame(Top.sub_cells[Top.sub_idx],
                                   ChildRadius(Top.search_radius),
                                   Top.depth + 1, Len(log) + 1)
                               EXCEPT !.pois = Top.pois,
                                      !.errors = Top.errors])
  /\ UNCHANGED <<fn_vars, api_key, geo, cells, cell_idx, pois, errors,
               result, pc, delayed, log, cell_results>>

\* for sub in sub_cells: self.find_places_in_bounding_box(sub, search_radius / 4)
CallSub ==
  /\ pc = "search"
  /\ Top.at = "subdivide"
  /\ Top.sub_idx <= Len(Top.sub_cells)
  /\ stack' = Append(stack, Frame(Top.sub_cells[Top.sub_idx],
                                  ChildRadius(Top.search_radius),
                                  Top.depth + 1, Len(log) + 1))
  /\ UNCHANGED <<fn_vars, api_key, geo, cells, cell_idx, pois, errors,
               result, pc, delayed, log, cell_results>>

\* a merge that assigns the sub-cell's lists instead of extending with them
MergeSub_Assign(parent, child) ==
  [parent EXCEPT !.pois = child.pois,
                 !.errors = child.errors,
                 !.sub_results = Append(@, [pois |-> child.pois,
                                            errors |-> child.errors]),
                 !.sub_idx = @ + 1,
                 !.at = IF parent.sub_idx = Len(parent.sub_cells)
                        THEN "return" ELSE "subdivide"]

\* the caller's pois.extend(sub_pois); errors.extend(sub_errs), and its own
\* return once the last sub-cell is done
MergeSub(parent, child) ==
  [parent EXCEPT !.pois = Extend(@, child.pois),
                 !.errors = Extend(@, child.errors),
                 !.sub_results = Append(@, [pois |-> child.pois,
                                            errors |-> child.errors]),
                 !.sub_idx = @ + 1,
                 !.at = IF parent.sub_idx = Len(parent.sub_cells)
                        THEN "return" ELSE "subdivide"]

ReturnToParent ==
  /\ pc = "search"
  /\ Len(stack) > 1
  /\ Top.at = "return"
  /\ stack' = [SubSeq(stack, 1, Len(stack) - 1)
                 EXCEPT ![Len(stack) - 1] = MergeSub(@, Top)]
  /\ UNCHANGED <<fn_vars, api_key, geo, cells, cell_idx, pois, errors,
               result, pc, delayed, log, cell_results>>

\* run_nearby_search: pois.extend(cell_pois); errors.extend(cell_errs)
ReturnToRun ==
  /\ pc = "search"
  /\ Len(stack) = 1
  /\ Top.at = "return"
  /\ pois' = Extend(pois, Top.pois)
  /\ errors' = Extend(errors, Top.errors)
  /\ stack' = <<>>
  /\ cell_results' = Append(cell_results, [pois |-> Top.pois,
                                           errors |-> Top.errors])
  /\ cell_idx' = cell_idx + 1
  /\ pc' = "loop"
  /\ UNCHANGED <<fn_vars, api_key, geo, cells, result, delayed, log>>

\* a result assembled as soon as the loop is between two cells
Finish_Early ==
  /\ pc = "loop"
  /\ result' = <<[raw |-> pois, cleaned |-> clean_places(pois),
                  errors |-> errors]>>
  /\ pc' = "done"
  /\ UNCHANGED <<fn_vars, api_key, geo, cells, cell_idx, stack, pois, errors,
               delayed, log, cell_results>>

\* a result whose cleaned list is the raw list
Finish_NoClean ==
  /\ pc = "loop"
  /\ cell_idx > Len(cells)
  /\ result' = <<[raw |-> pois, cleaned |-> pois, errors |-> errors]>>
  /\ pc' = "done"
  /\ UNCHANGED <<fn_vars, api_key, geo, cells, cell_idx, stack, pois, errors,
               delayed, log, cell_results>>

\* cleaned_pois = self.clean_places(pois, geo); return PlacesSearchResult(...)
Finish ==
  /\ pc = "loop"
  /\ cell_idx > Len(cells)
  /\ result' = <<[raw |-> pois, cleaned |-> clean_places(pois),
                  errors |-> errors]>>
  /\ pc' = "done"
  /\ UNCHANGED <<fn_vars, api_key, geo, cells, cell_idx, stack, pois, errors,
               delayed, log, cell_results>>

Next ==
  \/ SearchCell
  \/ SkipCell
  \/ Request
  \/ CallSub
  \/ ReturnToParent
  \/ ReturnToRun
  \/ Finish

Spec == Init /\ [][Next]_vars

\* --------------------------------------------------- a synthetic provider
\* The provider of the subdivision test: it reports SyntheticDense places
\* for a query at the maximum radius r, SyntheticSparse for a query at r / 2,
\* and either of the two for any other radius.
SyntheticDense == 5000

SyntheticSparse == 10

SyntheticTotals(radius, depth) ==
  IF radius = MAX_SEARCH_RADIUS_IN_METERS THEN {SyntheticDense}
  ELSE IF 2 * radius = MAX_SEARCH_RADIUS_IN_METERS THEN {SyntheticSparse}
  ELSE {SyntheticSparse} \cup
       (IF depth < MaxDepth THEN {SyntheticDense} ELSE {})

SyntheticRequest ==
  /\ pc = "search"
  /\ Top.at = "request"
  /\ Len(log) < MaxRequests
  /\ LET params == Params(Top.box, Top.search_radius, Top.page_idx)
     IN  \E t \in SyntheticTotals(params.radius, Top.depth) :
           Exchange(params,
                    Response(FALSE, 200, TRUE, t,
                             Businesses(t, params.offset, Len(log) + 1)))

SyntheticNext ==
  \/ SearchCell
  \/ SkipCell
  \/ SyntheticRequest
  \/ CallSub
  \/ ReturnToParent
  \/ ReturnToRun
  \/ Finish

SyntheticSpec == Init /\ [][SyntheticNext]_vars

\* ------------------------------------------------ the Tripadvisor search
\* TripadvisorCity.find_places_in_bounding_box, called on the bounding box of
\* the city.  The call stack is `stack`, the requests sent are `log`.

\* search_radius / 2 of the recursive call
TripChildRadius(r) == Radius(r.num, r.den * 2)

\* build_tripadvisor_nearby_api(lat_long, radius, radius_unit): the key is
\* written into the URL whatever it is; the caller passes math.ceil of the
\* radius, and `limit` where the radius unit is expected
TripUrl(box, search_radius, key) ==
  [latLong2 |-> Center2(box),
   key |-> key,
   category |-> "hotels",
   radius |-> CeilRadius(search_radius),
   radiusUnit |-> TRIP_MAX_NUM_RESULTS_PER_REQUEST]

\* the "data" of a response: count hotels, of which the first MaxPageRecords
\* are kept as records
TripData(count, req) ==
  [k \in 1..Min(MaxPageRecords, count) |-> [id |-> k, req |-> req, k |-> k]]

\* What the provider may answer.
\*   raised: requests.get raised
\*   json:   the body parses as JSON
\*   keyed:  the body has a "data" key
\*   count:  len(data)
TripResponse(raised, json, keyed, count, data) ==
  [raised |-> raised, json |-> json, keyed |-> keyed, count |-> count,
   data |-> data]

\* a full page is reported only above the depth bound
TripCounts(depth) ==
  {0, 1} \cup
  (IF depth < MaxDepth THEN {TRIP_MAX_NUM_RESULTS_PER_REQUEST} ELSE {})

TripResponses(depth, req) ==
  {TripResponse(TRUE, FALSE, FALSE, 0, <<>>),
   TripResponse(FALSE, FALSE, FALSE, 0, <<>>),
   TripResponse(FALSE, TRUE, FALSE, 0, <<>>)} \cup
  {TripResponse(FALSE, TRUE, TRUE, n, TripData(n, req)) :
     n \in TripCounts(depth)}

\* hotel_lst = [], errors = [] and the position in the body of the call
TripFrame(box, search_radius, depth) ==
  [box |-> box, search_radius |-> search_radius, depth |-> depth,
   hotel_lst |-> <<>>, errors |-> <<>>,
   sub_cells |-> <<>>, sub_idx |-> 0, at |-> "request"]

\* TripadvisorCity(...) is constructed, which reads the key from the
\* environment and stores whatever it finds, and find_places_in_bounding_box
\* is called on the bounding box of the city
TripInit ==
  /\ NoSplit
  /\ api_key \in ApiKeys
  /\ geo \in Boundaries
  /\ cells = <<from_polygon(geo)>>
  /\ cell_idx = 1
  /\ stack = <<TripFrame(from_polygon(geo),
                         Radius(TRIP_MAX_SEARCH_RADIUS_IN_METERS, 1), 0)>>
  /\ pois = <<>>
  /\ errors = <<>>
  /\ result = <<>>
  /\ pc = "search"
  /\ delayed = FALSE
  /\ log = <<>>
  /\ cell_results = <<>>

\* what the body of the loop does with a response
TripOutcome(f, resp) ==
  IF resp.raised \/ ~resp.json \/ ~resp.keyed
  THEN [decision |-> "raise", frame |-> f]
  ELSE IF resp.count >= TRIP_MAX_NUM_RESULTS_PER_REQUEST
  THEN [decision |-> "subdivide",
        frame |-> [f EXCEPT !.sub_cells = split_along_axes(f.box, 2, 2),
                            !.sub_idx = 1,
                            !.at = "subdivide"]]
  ELSE IF resp.count >= 1
  THEN [decision |-> "again",
        frame |-> [f EXCEPT !.hotel_lst = Extend(f.hotel_lst, resp.data)]]
  ELSE [decision |-> "again", frame |-> f]

\* one pass of the `while True` loop: the request and the branch taken
TripRequest ==
  /\ pc = "search"
  /\ Top.at = "request"
  /\ Len(log) < MaxRequests
  /\ \E resp \in TripResponses(Top.depth, Len(log) + 1) :
       LET f == Top
           out == TripOutcome(f, resp)
       IN  /\ log' = Append(log, [box |-> f.box, depth |-> f.depth,
                                  level |-> Len(stack),
                                  authorization |-> api_key,
                                  url |-> TripUrl(f.box, f.search_radius,
                                                  api_key),
                                  resp |-> resp,
                                  decision |-> out.decision])
           /\ stack' = SetTop(out.frame)
           /\ pc' = IF out.decision = "raise" THEN "crashed" ELSE pc
  /\ UNCHANGED <<fn_vars, api_key, geo, cells, cell_idx, pois, errors,
                 result, delayed, cell_results>>

\* the recursive call for the next sub-cell.  No call comes back to the
\* `for sub in sub_cells` loop: a call either raises, recurses, or stays in
\* its `while True` loop, whose only `return` follows the recursive calls.
TripCallSub ==
  /\ pc = "search"
  /\ Top.at = "subdivide"
  /\ Top.sub_idx <= Len(Top.sub_cells)
  /\ stack' = Append(stack, TripFrame(Top.sub_cells[Top.sub_idx],
                                      TripChildRadius(Top.search_radius),
                                      Top.depth + 1))
  /\ UNCHANGED <<fn_vars, api_key, geo, cells, cell_idx, pois, errors,
                 result, pc, delayed, log, cell_results>>

TripNext ==
  \/ TripRequest
  \/ TripCallSub

TripSpec == TripInit /\ [][TripNext]_vars

\* ------------------------------------------- the splits checked on their own
\* boxes whose sides are whole multiples of x_into and y_into, so that the
\* equal sub-boxes of the exact arithmetic lie on the integer grid
AxesInputs ==
  {[op |-> "split_along_axes",
    box |-> Box(o, o + x * u, 0, y * v),
    x_into |-> x, y_into |-> y, size |-> 0] :
     o \in {0, 3}, x \in 1..MaxSplit, y \in 1..MaxSplit,
     u \in 1..MaxSubSide, v \in 1..MaxSubSide}

SquaresInputs ==
  {[op |-> "split_into_squares",
    box |-> Box(o, o + w, 0, h),
    x_into |-> 0, y_into |-> 0, size |-> z] :
     o \in {0, 3}, w \in 1..MaxBoxSide, h \in 1..MaxBoxSide,
     z \in 1..MaxSquare}

SplitInit ==
  /\ NoSearch
  /\ fn_in \in {<<a>> : a \in AxesInputs \cup SquaresInputs}
  /\ fn_out = <<>>

\* sub_cells = box.split_along_axes(x_into, y_into)
ApplySplitAlongAxes ==
  /\ fn_in /= <<>>
  /\ fn_out = <<>>
  /\ fn_in[1].op = "split_along_axes"
  /\ fn_out' = <<split_along_axes(fn_in[1].box, fn_in[1].x_into,
                                  fn_in[1].y_into)>>
  /\ UNCHANGED <<search_vars, fn_in>>

\* cells = bbox.split_into_squares(size_in_degrees)
ApplySplitIntoSquares ==
  /\ fn_in /= <<>>
  /\ fn_out = <<>>
  /\ fn_in[1].op = "split_into_squares"
  /\ fn_out' = <<split_into_squares(fn_in[1].box, fn_in[1].size)>>
  /\ UNCHANGED <<search_vars, fn_in>>

SplitNext ==
  \/ ApplySplitAlongAxes
  \/ ApplySplitIntoSquares

SplitSpec == SplitInit /\ [][SplitNext]_vars

TypeOK ==
  /\ pc \in {"loop", "search", "done", "crashed", "idle"}
  /\ cell_idx \in 1..(Len(cells) + 1)
  /\ Len(log) <= MaxRequests

\* ------------------------------------------------- the routes of gurobi.py
\* the locations: 0 is the depot
Nodes == 0..2

\* an arc (i, j)
Arcs == Nodes \X Nodes

ArcLists == UNION {[1..n -> Arcs] : n \in 0..MaxArcs}

\* list.remove(x) with every element equal to x removed
list_remove_All(list, x) ==
  LET RECURSIVE drop(_)
      drop(l) == IF l = <<>> THEN <<>>
                 ELSE (IF Head(l) = x THEN <<>> ELSE <<Head(l)>>)
                        \o drop(Tail(l))
  IN  drop(list)

\* list.remove(x): the first element equal to x is removed
list_remove(list, x) ==
  LET i == CHOOSE k \in DOMAIN list :
             list[k] = x /\ \A m \in 1..(k - 1) : list[m] /= x
  IN  SubSeq(list, 1, i - 1) \o SubSeq(list, i + 1, Len(list))

\* trace_route after route.append(start), at the head of its `while True`
TraceEntry(route, start, selected_arcs) ==
  [route |-> Append(route, start), selected_arcs |-> selected_arcs,
   at |-> "loop"]

\* one pass of the `while True` loop: the first arc that leaves the last
\* node of the route extends the route and is removed; without one the
\* loop is left and the route returned
TraceStep(f) ==
  LET last == f.route[Len(f.route)]
      found == {k \in DOMAIN f.selected_arcs : f.selected_arcs[k][1] = last}
  IN  IF found = {} THEN [f EXCEPT !.at = "return"]
      ELSE LET arc == f.selected_arcs[CHOOSE k \in found :
                                        \A m \in found : k <= m]
           IN  [f EXCEPT !.route = Append(@, arc[2]),
                         !.selected_arcs = list_remove(@, arc)]

RECURSIVE TraceRun(_)
TraceRun(f) == IF f.at = "return" THEN f.route ELSE TraceRun(TraceStep(f))

trace_route(route, start, selected_arcs) ==
  TraceRun(TraceEntry(route, start, selected_arcs))

RECURSIVE RemoveEach(_, _)
RemoveEach(list, xs) ==
  IF xs = <<>> THEN list
  ELSE RemoveEach(list_remove(list, Head(xs)), Tail(xs))

\* print_save_route with the arcs that leave the depot left in active_arcs
print_save_route_KeepStarts(active_arcs) ==
  LET FromDepot(a) == a[1] = 0
      pairs_starting_with_0 == SelectSeq(active_arcs, FromDepot)
  IN  [n \in DOMAIN pairs_starting_with_0 |->
         trace_route(<<0>>, pairs_starting_with_0[n][2], active_arcs)]

\* print_save_route: the routes printed and saved, Route1 first.  Every
\* route is traced on a copy of the arcs that do not leave the depot.
print_save_route(active_arcs) ==
  LET FromDepot(a) == a[1] = 0
      pairs_starting_with_0 == SelectSeq(active_arcs, FromDepot)
      rest == RemoveEach(active_arcs, pairs_starting_with_0)
  IN  [n \in DOMAIN pairs_starting_with_0 |->
         trace_route(<<0>>, pairs_starting_with_0[n][2], rest)]

\* the arcs of a set in ascending and in descending order
RECURSIVE Ascending(_)
Ascending(S) ==
  IF S = {} THEN <<>>
  ELSE LET a == CHOOSE x \in S :
                  \A y \in S : x[1] < y[1] \/ (x[1] = y[1] /\ x[2] <= y[2])
       IN  <<a>> \o Ascending(S \ {a})

Reverse(list) == [k \in DOMAIN list |-> list[Len(list) + 1 - k]]

TraceInputs ==
  {[op |-> "trace_route", route |-> <<0>>, start |-> n, arcs |-> l] :
     n \in Nodes, l \in ArcLists}

SolutionInputs ==
  {[op |-> "print_save_route", route |-> <<>>, start |-> 0, arcs |-> l] :
     l \in UNION {{Ascending(S), Reverse(Ascending(S))} :
                   S \in {T \in SUBSET Arcs : Cardinality(T) <= MaxTourArcs}}}

RouteInit ==
  /\ NoSearch
  /\ fn_in \in {<<a>> : a \in TraceInputs \cup SolutionInputs}
  /\ fn_out = <<>>

\* trace_route(route, start, selected_arcs) is entered
CallTraceRoute ==
  /\ fn_in /= <<>>
  /\ fn_out = <<>>
  /\ fn_in[1].op = "trace_route"
  /\ fn_out' = <<TraceEntry(fn_in[1].route, fn_in[1].start, fn_in[1].arcs)>>
  /\ UNCHANGED <<search_vars, fn_in>>

\* one pass of its loop
TraceRouteStep ==
  /\ fn_in /= <<>>
  /\ fn_out /= <<>>
  /\ fn_in[1].op = "trace_route"
  /\ fn_out[1].at = "loop"
  /\ fn_out' = <<TraceStep(fn_out[1])>>
  /\ UNCHANGED <<search_vars, fn_in>>

ApplyPrintSaveRoute ==
  /\ fn_in /= <<>>
  /\ fn_out = <<>>
  /\ fn_in[1].op = "print_save_route"
  /\ fn_out' = <<print_save_route(fn_in[1].arcs)>>
  /\ UNCHANGED <<search_vars, fn_in>>

RouteNext ==
  \/ CallTraceRoute
  \/ TraceRouteStep
  \/ ApplyPrintSaveRoute

RouteSpec == RouteInit /\ [][RouteNext]_vars

\* ------------------------------------- the migration 0002_load_test_data
\* a file name is the sequence of its parts between dots
FileNames == {<<"a", "geojson">>, <<"b", "geojson">>, <<"a", "json">>}

\* name = f"test_{fname.split('.')[0]}"
ModelName(fname) == <<"test_", fname[1]>>

ModelNames == {ModelName(f) : f \in FileNames}

\* what a boundary file holds: a GeoJSON feature collection, or something
\* json.load or the geometry extraction fails on
FileContents == {"geojson", "invalid"}

\* storage.list_contents(...): distinct file names in any order
Directories ==
  UNION {{d \in [1..n -> [fname : FileNames, content : FileContents]] :
            \A i, j \in 1..n : d[i].fname = d[j].fname => i = j} :
         n \in 0..MaxFiles}

MigrationInputs ==
  {[op |-> "callback", files |-> d, loaded |-> l] :
     d \in Directories, l \in SUBSET ModelNames}

\* callback at the head of its for loop.  db is the table of the model, one
\* name per record; django_model is the model class after apps.get_model.
CallbackEntry(files, db, run) ==
  [files |-> files, idx |-> 1, db |-> db, django_model |-> "class",
   run |-> run, created |-> <<>>, skipped |-> <<>>, at |-> "loop",
   error |-> "none"]

\* one pass of the for loop.  django_model.objects.get(name=name) is
\* assigned to django_model itself, so after the first boundary found in the
\* table django_model is a record, and `.objects` of a record raises
\* AttributeError, which the except clause does not catch.
CallbackStep(f) ==
  IF f.idx > Len(f.files) THEN [f EXCEPT !.at = "done"]
  ELSE LET file == f.files[f.idx]
           name == ModelName(file.fname)
       IN  IF f.django_model = "instance"
           THEN [f EXCEPT !.at = "raised", !.error = "AttributeError"]
           ELSE IF \E k \in DOMAIN f.db : f.db[k] = name
           THEN [f EXCEPT !.django_model = "instance",
                          !.skipped = Append(@, file.fname),
                          !.idx = @ + 1]
           ELSE IF file.content = "invalid"
           THEN [f EXCEPT !.at = "raised", !.error = "RuntimeError"]
           ELSE [f EXCEPT !.db = Append(@, name),
                          !.created = Append(@, file.fname),
                          !.idx = @ + 1]

\* the table that holds one record for every name of a set
RECURSIVE Table(_)
Table(names) ==
  IF names = {} THEN <<>>
  ELSE LET n == CHOOSE x \in names : TRUE
       IN  <<n>> \o Table(names \ {n})

MigrationInit ==
  /\ NoSearch
  /\ fn_in \in {<<a>> : a \in MigrationInputs}
  /\ fn_out = <<>>

\* the migration is applied: callback(apps, schema_editor)
CallCallback ==
  /\ fn_in /= <<>>
  /\ fn_out = <<>>
  /\ fn_in[1].op = "callback"
  /\ fn_out' = <<CallbackEntry(fn_in[1].files,
                               Table(fn_in[1].loaded),
                               1)>>
  /\ UNCHANGED <<search_vars, fn_in>>

CallbackLoop ==
  /\ fn_in /= <<>>
  /\ fn_out /= <<>>
  /\ fn_in[1].op = "callback"
  /\ fn_out[1].at = "loop"
  /\ fn_out' = <<CallbackStep(fn_out[1])>>
  /\ UNCHANGED <<search_vars, fn_in>>

\* the callback is run a second time on the table the first run left
CallCallbackAgain ==
  /\ fn_in /= <<>>
  /\ fn_out /= <<>>
  /\ fn_in[1].op = "callback"
  /\ fn_out[1].at = "done"
  /\ fn_out[1].run = 1
  /\ fn_out' = <<CallbackEntry(fn_in[1].files, fn_out[1].db, 2)>>
  /\ UNCHANGED <<search_vars, fn_in>>

MigrationNext ==
  \/ CallCallback
  \/ CallbackLoop
  \/ CallCallbackAgain

MigrationSpec == MigrationInit /\ [][MigrationNext]_vars

\* ------------------------------------------- the Tripadvisor hotel pages
\* Strings are sequences of one-character strings.

\* str.lower() on the letters used here
Lower(str) ==
  [k \in DOMAIN str |->
     CASE str[k] = "H" -> "h"
       [] str[k] = "I" -> "i"
       [] OTHER -> str[k]]

\* str.strip()
RECURSIVE Strip(_)
Strip(str) ==
  IF str = <<>> THEN str
  ELSE IF Head(str) = " " THEN Strip(Tail(str))
  ELSE IF str[Len(str)] = " " THEN Strip(SubSeq(str, 1, Len(str) - 1))
  ELSE str

\* the names of a location search
CityNames ==
  {<<"h", "i">>, <<"H", "I">>, <<" ", "H", "i", " ">>, <<"h", " ", "i">>,
   <<"k">>}

\* tripadvisor_response_json['data']: the entries carry their position, so
\* that entries of one name are told apart
DataLists ==
  UNION {{[k \in 1..n |-> [name |-> names[k], location_id |-> k]] :
            names \in [1..n -> CityNames]} : n \in 0..MaxData}

\* tripadvisor_city_info with the names compared as they are
tripadvisor_city_info_Exact(data, cityname) ==
  LET RECURSIVE loop(_)
      loop(index) ==
        IF data[index].name = cityname
        THEN [raised |-> "none", city_info |-> <<data[index]>>]
        ELSE IF index = Len(data)
        THEN [raised |-> "ValueError", city_info |-> <<>>]
        ELSE loop(index + 1)
  IN  IF Len(data) = 0 THEN [raised |-> "ValueError", city_info |-> <<>>]
      ELSE loop(1)

\* tripadvisor_city_info: what it raises and what it returns
tripadvisor_city_info(data, cityname) ==
  LET RECURSIVE loop(_)
      loop(index) ==
        IF Strip(Lower(data[index].name)) = Strip(Lower(cityname))
        THEN [raised |-> "none", city_info |-> <<data[index]>>]
        ELSE IF index = Len(data)
        THEN [raised |-> "ValueError", city_info |-> <<>>]
        ELSE loop(index + 1)
  IN  IF Len(data) = 0 THEN [raised |-> "ValueError", city_info |-> <<>>]
      ELSE loop(1)

CityInfoInputs ==
  {[op |-> "tripadvisor_city_info", data |-> d, cityname |-> c] :
     d \in DataLists, c \in CityNames}

\* a hotel of the list and what its page gives: the address lookup raises
\* or not; the room label is found, is absent, or its lookup raises
HotelPages ==
  [url : {"u1", "u2"}, address : {"found", "raises"},
   rooms : {"found", "absent", "raises"}]

HotelLists == UNION {[1..n -> HotelPages] : n \in 0..MaxHotels}

\* get_room_number: failed_urls = [] is the first statement of the loop
\* body, and the return statement names failed_urls after the loop
get_room_number(incomplete_hotel_lst) ==
  LET failures(h) ==
        (IF h.address = "raises" THEN <<<<h.url, "address">>>> ELSE <<>>)
        \o (IF h.rooms = "raises" THEN <<<<h.url, "number of rooms">>>>
            ELSE <<>>)
      extended(h) ==
        [url |-> h.url,
         address |-> IF h.address = "found" THEN "address" ELSE "nan",
         number_of_rooms |-> IF h.rooms = "found" THEN "rooms" ELSE "nan"]
      n == Len(incomplete_hotel_lst)
  IN  IF n = 0
      THEN [raised |-> "UnboundLocalError", hotels |-> <<>>,
            failed_urls |-> <<>>]
      ELSE [raised |-> "none",
            hotels |-> [k \in 1..n |-> extended(incomplete_hotel_lst[k])],
            failed_urls |-> failures(incomplete_hotel_lst[n])]

RoomNumberInputs ==
  {[op |-> "get_room_number", hotels |-> l] : l \in HotelLists}

\* TRIP_HOTELLST_URL
TRIP_HOTELLST_URL ==
  <<"h", "t", "t", "p", "s", ":", "/", "/", "w", "w", "w", ".", "t", "r",
    "i", "p", "a", "d", "v", "i", "s", "o", "r", ".", "c", "o", "m", "/",
    "H", "o", "t", "e", "l", "s", "-", "g">>

HotelsHtml == <<"H", "o", "t", "e", "l", "s", ".", "h", "t", "m", "l">>

Digits == <<"0", "1", "2", "3", "4", "5", "6", "7", "8", "9">>

IsDigit(ch) == \E d \in DOMAIN Digits : Digits[d] = ch

DigitValue(ch) == (CHOOSE d \in DOMAIN Digits : Digits[d] = ch) - 1

\* int(str) accepts a non-empty run of digits here and raises ValueError on
\* anything else
IsInt(str) == str /= <<>> /\ \A k \in DOMAIN str : IsDigit(str[k])

RECURSIVE ParseInt(_)
ParseInt(str) ==
  IF str = <<>> THEN 0
  ELSE 10 * ParseInt(SubSeq(str, 1, Len(str) - 1))
         + DigitValue(str[Len(str)])

\* str(n) of a natural number
RECURSIVE Str(_)
Str(n) ==
  IF n < 10 THEN <<Digits[n + 1]>>
  ELSE Str(n \div 10) \o <<Digits[(n % 10) + 1]>>

StartsWith(str, prefix) ==
  Len(str) >= Len(prefix) /\ SubSeq(str, 1, Len(prefix)) = prefix

\* str.replace(old, new): every occurrence, from the left
RECURSIVE Replace(_, _, _)
Replace(str, old, new) ==
  IF Len(str) < Len(old) THEN str
  ELSE IF StartsWith(str, old)
  THEN new \o Replace(SubSeq(str, Len(old) + 1, Len(str)), old, new)
  ELSE <<Head(str)>> \o Replace(Tail(str), old, new)

\* str.split(sep) for a separator of one character
RECURSIVE Split(_, _)
Split(str, sep) ==
  IF \A k \in DOMAIN str : str[k] /= sep THEN <<str>>
  ELSE LET i == CHOOSE k \in DOMAIN str :
                  str[k] = sep /\ \A m \in 1..(k - 1) : str[m] /= sep
       IN  <<SubSeq(str, 1, i - 1)>>
             \o Split(SubSeq(str, i + 1, Len(str)), sep)

\* the entries tripadvisor_city_hotels is given: `city` holds the city of
\* the address when there is one
CityInfos ==
  [location_id : {<<"6">>, <<"6", "0">>},
   name : {<<"H", "i", "l", "o">>, <<"H", "i", " ", "l", "o">>,
           <<"W", "-", "S">>},
   city : {<<>>, <<<<"K">>>>},
   state : {<<"H", "I">>}]

\* city_info_values and tripadvisor_city_hotels: the URL of the first page
tripadvisor_city_hotels(city_info) ==
  LET location_id == city_info.location_id
      name == Replace(city_info.name, <<" ">>, <<"_">>)
      state == Replace(city_info.state, <<" ">>, <<"_">>)
  IN  IF city_info.city /= <<>>
      THEN TRIP_HOTELLST_URL \o location_id \o <<"-">> \o name \o <<"_">>
             \o Replace(city_info.city[1], <<" ">>, <<"_">>) \o <<"_">>
             \o state \o <<"-">> \o HotelsHtml
      ELSE TRIP_HOTELLST_URL \o location_id \o <<"-">> \o name \o <<"_">>
             \o state \o <<"-">> \o HotelsHtml

\* get_additional_hotelpage: the URL of the next page, or the ValueError of
\* int(oa_old[2:])
get_additional_hotelpage(city_hotellst_url) ==
  LET parts == Split(city_hotellst_url, "-")
      g_location_id == parts[2]
  IN  IF \E k \in DOMAIN parts[3] : parts[3][k] = "_"
      THEN [raised |-> "none",
            url |-> Replace(city_hotellst_url, g_location_id,
                            g_location_id \o <<"-", "o", "a", "3", "0">>)]
      ELSE LET oa_old == parts[3]
               number == SubSeq(oa_old, 3, Len(oa_old))
           IN  IF ~IsInt(number)
               THEN [raised |-> "ValueError", url |-> city_hotellst_url]
               ELSE [raised |-> "none",
                     url |-> Replace(city_hotellst_url,
                                     g_location_id \o <<"-">> \o oa_old,
                                     g_location_id \o <<"-">> \o <<"o", "a">>
                                       \o Str(ParseInt(number)
                                                + HotelsPerPage))]

HotelPagesInputs == {[op |-> "hotel_pages", city_info |-> c] : c \in CityInfos}

HotelInit ==
  /\ NoSearch
  /\ fn_in \in {<<a>> : a \in CityInfoInputs \cup RoomNumberInputs
                                \cup HotelPagesInputs}
  /\ fn_out = <<>>

ApplyCityInfo ==
  /\ fn_in /= <<>>
  /\ fn_out = <<>>
  /\ fn_in[1].op = "tripadvisor_city_info"
  /\ fn_out' = <<tripadvisor_city_info(fn_in[1].data, fn_in[1].cityname)>>
  /\ UNCHANGED <<search_vars, fn_in>>

ApplyGetRoomNumber ==
  /\ fn_in /= <<>>
  /\ fn_out = <<>>
  /\ fn_in[1].op = "get_room_number"
  /\ fn_out' = <<get_room_number(fn_in[1].hotels)>>
  /\ UNCHANGED <<search_vars, fn_in>>

\* city_hotellst_url = tripadvisor_city_hotels(city_info)
CallCityHotels ==
  /\ fn_in /= <<>>
  /\ fn_out = <<>>
  /\ fn_in[1].op = "hotel_pages"
  /\ fn_out' = <<[raised |-> "none",
                  url |-> tripadvisor_city_hotels(fn_in[1].city_info),
                  pages |-> 0]>>
  /\ UNCHANGED <<search_vars, fn_in>>

\* loc_hotellst_url = get_additional_hotelpage(loc_hotellst_url)
NextHotelPage ==
  /\ fn_in /= <<>>
  /\ fn_out /= <<>>
  /\ fn_in[1].op = "hotel_pages"
  /\ fn_out[1].raised = "none"
  /\ fn_out[1].pages < MaxPages
  /\ LET next == get_additional_hotelpage(fn_out[1].url)
     IN  fn_out' = <<[raised |-> next.raised, url |-> next.url,
                      pages |-> fn_out[1].pages + 1]>>
  /\ UNCHANGED <<search_vars, fn_in>>

HotelNext ==
  \/ ApplyCityInfo
  \/ ApplyGetRoomNumber
  \/ CallCityHotels
  \/ NextHotelPage

HotelSpec == HotelInit /\ [][HotelNext]_vars

\* ------------------------------------------------------------------ claims
\* the records held by the run and by the calls in progress
Collected ==
  Range(pois) \cup UNION {Range(stack[k].pois) : k \in DOMAIN stack}

\* the error entries held by the run and by the calls in progress
Recorded ==
  Range(errors) \cup UNION {Range(stack[k].errors) : k \in DOMAIN stack}

\* The code has no recursion floor.  A floor, if there were one, would lie
\* at or above the deepest level at which the modelled provider still
\* reports a total above the cap.
DepthFloor == MaxDepth - 1

\* C1: a response whose total is at or above the per-query cap (equal to it
\* included) makes the cell subdivide, and none of that response's records is
\* collected.
C1_AtOrAboveCapSubdivides ==
  \A i \in DOMAIN log :
    (WellFormed(log[i].resp) /\ log[i].resp.total >= MAX_NUM_QUERY_RESULTS)
      => /\ log[i].decision = "subdivide"
         /\ \A rec \in Collected : rec.req /= i

\* C2: a cell at subdivision depth d is queried with radius
\* MAX_SEARCH_RADIUS_IN_METERS / 2^d: every child has half its parent's radius.
C2_RadiusHalvedPerDepth ==
  \A i \in DOMAIN log :
    log[i].params.radius * (2 ^ log[i].depth) = MAX_SEARCH_RADIUS_IN_METERS

\* C3: the radius of every query is at least half the diagonal of the queried
\* cell, so the query circle encloses the cell.
C3_QueryCircleEnclosesCell ==
  \A i \in DOMAIN log : Circumscribes(log[i].params.radius, log[i].box)

\* C4: there is a floor below which no cell is subdivided: a cell at the
\* floor depth is never split, whatever total the provider reports.
C4_NoSubdivisionAtFloor ==
  \A k \in DOMAIN stack :
    stack[k].depth >= DepthFloor => stack[k].sub_cells = <<>>

\* C5: a response with a total below the cap is paginated, never subdivided,
\* and the call returns with exactly the request that completes
\* ceil(total / limit) pages (the first request when the total fits a page).
C5_PaginatesCeilTotalOverLimit ==
  \A i \in DOMAIN log :
    (WellFormed(log[i].resp) /\ log[i].resp.total < MAX_NUM_QUERY_RESULTS)
      => LET page_no == (log[i].params.offset \div MAX_NUM_PAGE_RESULTS) + 1
             needed == Max(1, CeilDiv(log[i].resp.total,
                                      MAX_NUM_PAGE_RESULTS))
         IN  /\ log[i].decision \in {"last_page", "next_page"}
             /\ log[i].decision = "last_page" <=> page_no = needed
             /\ page_no <= needed

\* C6: every queried cell, initial or produced by a subdivision, intersects
\* the boundary.
C6_OnlyIntersectingCellsQueried ==
  \A i \in DOMAIN log : intersects_with(log[i].box, geo)

\* C7: a response with a non-success status is recorded as one error entry
\* with the request's parameters, the run goes on to the other cells, and the
\* entry is in the result's error list.
NonSuccess(resp) == ~resp.raised /\ ~resp.ok

C7_TransportErrorIsolated ==
  \A i \in DOMAIN log :
    (NonSuccess(log[i].resp) /\ log[i].resp.status \in TransportStatuses)
      => /\ log[i].decision = "error"
         /\ pc /= "crashed"
         /\ Cardinality({e \in Recorded : e.params = log[i].params}) = 1
         /\ result /= <<>> =>
              /\ \E n \in DOMAIN result[1].errors :
                   result[1].errors[n].params = log[i].params
              /\ \A c \in DOMAIN cells :
                   intersects_with(cells[c], geo)
                     => \E j \in DOMAIN log : log[j].box = cells[c]

\* C8 as stated: what a subdivided cell returns is exactly the concatenation,
\* in child order, of what its children returned.
SubPois(f) == Concat([j \in DOMAIN f.sub_results |-> f.sub_results[j].pois])

SubErrors(f) ==
  Concat([j \in DOMAIN f.sub_results |-> f.sub_results[j].errors])

OwnPages(f) ==
  Concat([j \in 1..f.page_idx |-> log[f.first_req + j - 1].resp.businesses])

\* the records of all collected pages of the run, in request order
LoggedPois ==
  Concat([i \in DOMAIN log |->
            IF log[i].decision \in {"last_page", "next_page"}
            THEN log[i].resp.businesses ELSE <<>>])

\* the error entries of the run, in request order
LoggedErrors ==
  Concat([i \in DOMAIN log |->
            IF log[i].decision = "error"
            THEN <<[params |-> log[i].params, error |-> log[i].resp.status]>>
            ELSE <<>>])

C9_NoRequestAfterFatal ==
  \A i \in DOMAIN log :
    (NonSuccess(log[i].resp) /\ log[i].resp.status \in FatalStatuses)
      => i = Len(log)

\* C10: a cell at the floor depth that still reports a total beyond the cap
\* is kept as a leaf and gets exactly one error entry naming it.
C10_DensityErrorAtFloor ==
  \A i \in DOMAIN log :
    (/\ log[i].depth = DepthFloor
     /\ WellFormed(log[i].resp)
     /\ log[i].resp.total > MAX_NUM_QUERY_RESULTS)
      => /\ log[i].decision /= "subdivide"
         /\ Cardinality({e \in Recorded : e.params = log[i].params}) = 1

\* C11: when a later page of a cell gets a non-success response, the records
\* of the cell's earlier pages are kept, the error is recorded once with the
\* request's parameters, and no further page of the cell is requested.
C11_LaterPageFailureKeepsEarlierPages ==
  \A i \in DOMAIN log :
    (log[i].params.offset > 0 /\ NonSuccess(log[i].resp))
      => /\ log[i].decision = "error"
         /\ pc /= "crashed"
         /\ \A j \in 1..(i - 1) :
              (log[j].box = log[i].box /\ log[j].decision = "next_page")
                => Range(log[j].resp.businesses) \subseteq Collected
         /\ Cardinality({e \in Recorded : e.params = log[i].params}) = 1
         /\ \A j \in (i + 1)..Len(log) : log[j].box /= log[i].box

\* the initial cells that contain part of the boundary
QueriedCells == {c \in DOMAIN cells : intersects_with(cells[c], geo)}

\* every call has returned: the loop over the initial cells is over, each
\* intersecting cell has handed back its lists, no call is in progress and
\* every sub-cell of every subdivided cell has been queried
AllCellsTerminal ==
  /\ cell_idx > Len(cells)
  /\ stack = <<>>
  /\ Len(cell_results) = Cardinality(QueriedCells)
  /\ \A c \in QueriedCells : \E i \in DOMAIN log : log[i].box = cells[c]
  /\ \A i \in DOMAIN log :
       log[i].decision = "subdivide"
         => \A n \in 1..4 :
              \E j \in DOMAIN log :
                log[j].box = split_along_axes(log[i].box, 2, 2)[n]

\* C13: the result exists only when every initial cell and every spawned
\* sub-cell has reached a terminal state, and no request is sent once it
\* exists.
C13_ResultAfterAllCellsTerminal ==
  /\ [](result /= <<>> => AllCellsTerminal)
  /\ [][result /= <<>> => log' = log]_vars

\* a result assembled after a run in which a cell was subdivided
C13_Witness ==
  /\ result /= <<>>
  /\ \E i \in DOMAIN log : log[i].decision = "subdivide"

C15_ThrottledPageRetried ==
  \A i \in DOMAIN log :
    (NonSuccess(log[i].resp) /\ log[i].resp.status = 429
       /\ log[i].decision = "error")
      => /\ i > 1
         /\ log[i - 1].params = log[i].params
         /\ log[i - 1].resp.status = 429

\* C19: a page whose body is not JSON, or has no total, gets one
\* malformed-response error entry and the run does not end with an exception.
Malformed(resp) ==
  ~resp.raised /\ resp.ok /\ (~resp.json \/ resp.total = NoTotal)

C19_MalformedPageRecorded ==
  \A i \in DOMAIN log :
    Malformed(log[i].resp)
      => /\ log[i].decision /= "raise"
         /\ pc /= "crashed"
         /\ Cardinality({e \in Recorded : e.params = log[i].params}) = 1

\* C20: every request but the first of a run is sent after the fixed delay.
C20_EveryRequestDelayed ==
  \A i \in DOMAIN log : i > 1 => log[i].delayed

\* the unit squares of a box, each named by its lower left corner
UnitSquares(box) ==
  (box.min_x..(box.max_x - 1)) \X (box.min_y..(box.max_y - 1))

\* The cells tile the box: each lies inside the box, and every unit square
\* of the box lies in exactly one cell (no gap, no shared interior).
Tiles(cs, box) ==
  /\ \A n \in DOMAIN cs :
       /\ cs[n].min_x < cs[n].max_x
       /\ cs[n].min_y < cs[n].max_y
       /\ UnitSquares(cs[n]) \subseteq UnitSquares(box)
  /\ \A q \in UnitSquares(box) :
       Cardinality({n \in DOMAIN cs : q \in UnitSquares(cs[n])}) = 1

\* C17: split_along_axes(x_into, y_into) returns x_into * y_into sub-boxes of
\* equal size that tile the box.
C17_SplitAlongAxesTiles ==
  (fn_out /= <<>> /\ fn_in[1].op = "split_along_axes")
    => LET a == fn_in[1]
           cs == fn_out[1]
       IN  /\ Len(cs) = a.x_into * a.y_into
           /\ \A n \in DOMAIN cs :
                /\ Width(cs[n]) * a.x_into = Width(a.box)
                /\ Height(cs[n]) * a.y_into = Height(a.box)
           /\ Tiles(cs, a.box)

\* a box split into at least two columns and two rows
C17_Witness ==
  /\ fn_out /= <<>>
  /\ fn_in[1].op = "split_along_axes"
  /\ fn_in[1].x_into >= 2
  /\ fn_in[1].y_into >= 2
  /\ Len(fn_out[1]) >= 4

C16_SubdividesOnceAtHalfRadius ==
  /\ \A i \in DOMAIN log :
       \/ /\ log[i].depth = 0
          /\ log[i].params.radius = MAX_SEARCH_RADIUS_IN_METERS
          /\ log[i].decision = "subdivide"
       \/ /\ log[i].depth = 1
          /\ 2 * log[i].params.radius = MAX_SEARCH_RADIUS_IN_METERS
          /\ log[i].decision = "last_page"
  /\ \A c \in DOMAIN cell_results :
       Len(cell_results[c].pois) =
         4 * Min(MaxPageRecords, SyntheticSparse)

\* C12: no provider request is sent without a credential: a client whose
\* API key is missing never gets to send one.
C12_NoRequestWithoutCredential ==
  \A i \in DOMAIN log : log[i].authorization /= NoKey

\* C21: a request that times out or raises a network exception becomes an
\* error entry of its cell and the run goes on; it never ends the run
\* abnormally.
C21_RaisedRequestIsCellError ==
  \A i \in DOMAIN log :
    log[i].resp.raised => /\ log[i].decision = "error"
                          /\ pc /= "crashed"

\* C22: a Tripadvisor cell whose response holds fewer results than the
\* per-request limit is done with that response: the call returns and the
\* cell is never asked for again.
C22_CellUnderLimitAskedOnce ==
  \A i \in DOMAIN log :
    (/\ ~log[i].resp.raised /\ log[i].resp.json /\ log[i].resp.keyed
     /\ log[i].resp.count < TRIP_MAX_NUM_RESULTS_PER_REQUEST)
      => \A j \in DOMAIN log : j > i => log[j].box /= log[i].box

\* C23: with successful responses whose totals are below the cap a cell is
\* asked for a further page only while records remain beyond that page, so
\* the pages of a cell end; a total of 0 ends the cell with its first request.
C23_PagesEndBelowCap ==
  \A i \in DOMAIN log :
    (WellFormed(log[i].resp) /\ ~ExceedsCap(log[i].resp.total))
      => /\ log[i].decision \in {"last_page", "next_page"}
         /\ log[i].decision = "next_page"
              => log[i].params.offset + MAX_NUM_PAGE_RESULTS
                   < log[i].resp.total

\* C24: a step touches the lists of the running call only.  The lists of
\* the calls below it on the stack stay as they are; a new call starts with
\* empty lists; a return extends the caller's lists with the lists returned
\* and leaves everything the caller had in place; what a sub-cell or an
\* initial cell has returned is never changed afterwards.
C24_FramesOwnTheirLists ==
  [][/\ \A k \in DOMAIN stack :
          (k < Len(stack) /\ k < Len(stack'))
            => /\ stack'[k].pois = stack[k].pois
               /\ stack'[k].errors = stack[k].errors
               /\ stack'[k].sub_results = stack[k].sub_results
     /\ Len(stack') > Len(stack)
          => /\ stack'[Len(stack')].pois = <<>>
             /\ stack'[Len(stack')].errors = <<>>
     /\ (Len(stack') < Len(stack) /\ stack' /= <<>>)
          => LET caller == stack[Len(stack')]
                 after == stack'[Len(stack')]
             IN  /\ after.pois = caller.pois \o Top.pois
                 /\ after.errors = caller.errors \o Top.errors
                 /\ after.sub_results =
                      Append(caller.sub_results,
                             [pois |-> Top.pois, errors |-> Top.errors])
     /\ (stack /= <<>> /\ stack' = <<>>)
          => /\ pois' = pois \o Top.pois
             /\ errors' = errors \o Top.errors
     /\ \A c \in DOMAIN cell_results : cell_results'[c] = cell_results[c]
    ]_vars

\* the second sub-cell has returned to a caller that holds records of its
\* own and of the first sub-cell
C24_Witness ==
  \E k \in DOMAIN stack :
    /\ Len(stack[k].sub_results) >= 2
    /\ stack[k].sub_results[1].pois /= <<>>
    /\ stack[k].sub_results[2].pois /= <<>>
    /\ stack[k].page_idx > 0

\* the active arcs are closed tours through the depot that share no other
\* node: no arc twice, no arc from a node to itself, one arc into and one
\* arc out of every other node, and every other node on a path from the depot
ArcsInto(list, n) == {k \in DOMAIN list : list[k][2] = n}

ArcsOutOf(list, n) == {k \in DOMAIN list : list[k][1] = n}

Visited(list) ==
  {n \in Nodes \ {0} : ArcsInto(list, n) \cup ArcsOutOf(list, n) /= {}}

RECURSIVE Reached(_, _)
Reached(list, from) ==
  LET more == from \cup {list[k][2] : k \in {m \in DOMAIN list :
                                              list[m][1] \in from}}
  IN  IF more = from THEN from ELSE Reached(list, more)

ClosedTours(list) ==
  /\ \A k, m \in DOMAIN list : list[k] = list[m] => k = m
  /\ \A k \in DOMAIN list : list[k][1] /= list[k][2]
  /\ ArcsOutOf(list, 0) /= {}
  /\ \A n \in Visited(list) :
       /\ Cardinality(ArcsInto(list, n)) = 1
       /\ Cardinality(ArcsOutOf(list, n)) = 1
  /\ Visited(list) \subseteq Reached(list, {0})

Occurrences(routes, n) ==
  Cardinality({<<r, k>> \in (DOMAIN routes) \X (1..(MaxTourArcs + 2)) :
                 k \in DOMAIN routes[r] /\ routes[r][k] = n})

\* C26: for closed tours through the depot that share no other node,
\* print_save_route gives one route per arc that leaves the depot; a route
\* starts at 0, follows active arcs, ends with the return to 0, and every
\* other node is on exactly one route, once.
C26_OneRoutePerTour ==
  (/\ fn_in /= <<>> /\ fn_out /= <<>>
   /\ fn_in[1].op = "print_save_route"
   /\ ClosedTours(fn_in[1].arcs))
    => LET arcs == fn_in[1].arcs
           routes == fn_out[1]
       IN  /\ Len(routes) = Cardinality(ArcsOutOf(arcs, 0))
           /\ \A r \in DOMAIN routes :
                /\ Len(routes[r]) >= 3
                /\ routes[r][1] = 0
                /\ routes[r][Len(routes[r])] = 0
                /\ \A k \in 1..(Len(routes[r]) - 1) :
                     <<routes[r][k], routes[r][k + 1]>> \in Range(arcs)
                /\ \A k \in 2..(Len(routes[r]) - 1) : routes[r][k] /= 0
           /\ \A n \in Visited(arcs) : Occurrences(routes, n) = 1

\* two tours, one through each of the other nodes, have been traced
C26_Witness ==
  /\ fn_in /= <<>> /\ fn_out /= <<>>
  /\ fn_in[1].op = "print_save_route"
  /\ ClosedTours(fn_in[1].arcs)
  /\ Len(fn_out[1]) = 2
  /\ Visited(fn_in[1].arcs) = Nodes \ {0}

\* the arcs trace_route has followed so far
UsedArcs(f, given) ==
  [k \in 1..(Len(f.route) - given - 1) |->
     <<f.route[given + k], f.route[given + k + 1]>>]

Count(list, x) == Cardinality({k \in DOMAIN list : list[k] = x})

TraceUnderWay ==
  fn_in /= <<>> /\ fn_out /= <<>> /\ fn_in[1].op = "trace_route"

\* C27: trace_route ends for every arc list: every pass of its loop either
\* leaves the loop or extends the route by one node and removes one arc, so
\* the arcs left bound the passes to come, and a call in its loop can always
\* make its next pass; an arc is followed at most as often as it was in the
\* list; the route gets at most len(selected_arcs) + 1 nodes after the ones
\* it was given.
C27_TraceRouteTerminates ==
  /\ [][(TraceUnderWay /\ fn_out[1].at = "loop")
          => \/ /\ fn_out'[1].at = "return"
                /\ fn_out'[1].route = fn_out[1].route
             \/ /\ fn_out'[1].at = "loop"
                /\ Len(fn_out'[1].route) = Len(fn_out[1].route) + 1
                /\ Len(fn_out'[1].selected_arcs)
                     = Len(fn_out[1].selected_arcs) - 1]_vars
  /\ [](TraceUnderWay
          => LET given == Len(fn_in[1].route)
                 used == UsedArcs(fn_out[1], given)
             IN  /\ \A a \in Arcs :
                      Count(fn_in[1].arcs, a) =
                        Count(used, a) + Count(fn_out[1].selected_arcs, a)
                 /\ Len(fn_out[1].route) - given <= Len(fn_in[1].arcs) + 1
                 /\ fn_out[1].at = "loop" => ENABLED TraceRouteStep)

\* a route has gone round a cycle and returned with one of two equal arcs
\* left over
C27_Witness ==
  /\ TraceUnderWay
  /\ fn_out[1].at = "return"
  /\ Len(fn_out[1].route) = 1 + MaxArcs
  /\ fn_out[1].route[2] = fn_out[1].route[Len(fn_out[1].route)]
  /\ \E k, m \in DOMAIN fn_in[1].arcs :
       k /= m /\ fn_in[1].arcs[k] = fn_in[1].arcs[m]

\* C25: with boundary files that load, the callback never raises, whatever
\* the mix and order of boundaries already in the table and new ones; a file
\* whose model name is in the table is skipped, every other file gets one
\* record, and a second run creates nothing.
CallbackUnderWay ==
  fn_in /= <<>> /\ fn_out /= <<>> /\ fn_in[1].op = "callback"

C25_CallbackLoadsEveryFile ==
  (/\ CallbackUnderWay
   /\ \A k \in DOMAIN fn_in[1].files : fn_in[1].files[k].content = "geojson")
    => LET f == fn_out[1]
       IN  /\ f.at /= "raised"
           /\ \A n \in ModelNames : Count(f.db, n) <= 1
           /\ f.at = "done"
                => \A k \in DOMAIN f.files :
                     Count(f.db, ModelName(f.files[k].fname)) = 1
           /\ f.run = 2 => f.created = <<>>

\* C28: get_room_number returns without error for every list of hotels,
\* the empty one included, and its failed_urls holds one entry for every
\* (url, field) whose extraction raised, over all hotels of the list.
AllFailures(hotels) ==
  Concat([k \in DOMAIN hotels |->
            (IF hotels[k].address = "raises"
             THEN <<<<hotels[k].url, "address">>>> ELSE <<>>)
            \o (IF hotels[k].rooms = "raises"
                THEN <<<<hotels[k].url, "number of rooms">>>> ELSE <<>>)])

C28_FailedUrlsOfAllHotels ==
  (fn_in /= <<>> /\ fn_out /= <<>> /\ fn_in[1].op = "get_room_number")
    => /\ fn_out[1].raised = "none"
       /\ fn_out[1].failed_urls = AllFailures(fn_in[1].hotels)

\* C30: tripadvisor_city_info returns the first entry whose name equals the
\* city name after lower-casing and stripping both, and raises ValueError,
\* returning nothing, when the data is empty or no entry matches.
Matches(data, cityname) ==
  {k \in DOMAIN data : Strip(Lower(data[k].name)) = Strip(Lower(cityname))}

C30_FirstMatchOrValueError ==
  (fn_in /= <<>> /\ fn_out /= <<>> /\ fn_in[1].op = "tripadvisor_city_info")
    => LET found == Matches(fn_in[1].data, fn_in[1].cityname)
       IN  IF found = {}
           THEN /\ fn_out[1].raised = "ValueError"
                /\ fn_out[1].city_info = <<>>
           ELSE /\ fn_out[1].raised = "none"
                /\ fn_out[1].city_info =
                     <<fn_in[1].data[CHOOSE k \in found :
                                       \A m \in found : k <= m]>>

\* the second of two matching entries differs from the city name in case
\* and surrounding blanks only, the first matches too and is the one returned
C30_Witness ==
  /\ fn_in /= <<>> /\ fn_out /= <<>>
  /\ fn_in[1].op = "tripadvisor_city_info"
  /\ Matches(fn_in[1].data, fn_in[1].cityname) = {1, 2}
  /\ fn_in[1].data[2].name /= fn_in[1].cityname
  /\ fn_in[1].data[1].name /= fn_in[1].cityname
  /\ fn_out[1].city_info = <<fn_in[1].data[1]>>

\* C29: k >= 1 applications of get_additional_hotelpage to the URL of a
\* city's first hotel page give that URL with the one segment oa<30 * k>
\* put in after the location id, and nothing else changed.
C29_OffsetSegmentAfterKPages ==
  (/\ fn_in /= <<>> /\ fn_out /= <<>>
   /\ fn_in[1].op = "hotel_pages"
   /\ fn_out[1].pages >= 1)
    => LET first == tripadvisor_city_hotels(fn_in[1].city_info)
           head == TRIP_HOTELLST_URL \o fn_in[1].city_info.location_id
           rest == SubSeq(first, Len(head) + 1, Len(first))
       IN  /\ fn_out[1].raised = "none"
           /\ fn_out[1].url =
                head \o <<"-", "o", "a">>
                  \o Str(HotelsPerPage * fn_out[1].pages) \o rest
====
